---- MODULE Spec2Model ----
(***************************************************************************)
(* A model of src/App.js: the to-do list component, the auth provider and  *)
(* the document store it talks to.                                         *)
(*                                                                         *)
(* The React component is modelled at the granularity of its handlers: a   *)
(* callback that sets state is one step together with the render it        *)
(* schedules and the effect (cleanup, then setup) that render re-runs.     *)
(* An awaited call splits a handler in two steps: the request is issued in *)
(* the first, and its continuation runs when the request is settled.       *)
(***************************************************************************)
EXTENDS Naturals, Sequences, FiniteSets

VARIABLES
    todos,          \* useState([])    : the local mirror, an array of items
    newTodo,        \* useState('')    : the input field
    loading,        \* useState(true)
    userId,         \* useState(null)
    authReady,      \* useState(false)
    mounted,        \* the component is mounted (its effects are set up)
    liveSubs,       \* collection paths with an open onSnapshot listener
    signIns,        \* sign-in attempts awaited by the auth callback
    currentUser,    \* the auth provider's identity, as last reported
    store,          \* the document store: collection path -> documents
    inflight,       \* requests issued to the store and not settled yet
    called,         \* the step taken last: operation and arguments
    issued,         \* the requests that step issued
    thrown,         \* an exception escaped that step
    lastSnap,       \* the documents that step's snapshot notification held
    mirrorOf,       \* the collection whose snapshot filled the mirror last
    initialAuthToken \* the token supplied at launch, or NoToken

vars == << todos, newTodo, loading, userId, authReady, mounted, liveSubs,
           signIns, currentUser, store, inflight, called, issued, thrown,
           lastSnap, mirrorOf, initialAuthToken >>

----------------------------------------------------------------------------
(* Bounds and input sets *)

MaxInflight == 1
MaxSignIns == 1
MaxRace == 2

Users == {"A", "B"}
DocIds == {"d1", "d2"}
NoUser == "null"
Unresolved == "unresolved"
NoToken == "null"
NoPath == << >>
Tokens == {"tok"}

\* Texts are sequences of characters; " " is whitespace.
Space == " "
Texts == { << >>, <<" ">>, <<" ", "a", " ">> }
UserTexts == { <<"a">> }
DocTexts == { <<"a">> }

appId == "default-app-id"

----------------------------------------------------------------------------
(* Pure helpers *)

RECURSIVE TrimStart(_)
TrimStart(s) ==
    IF s # <<>> /\ Head(s) = Space THEN TrimStart(Tail(s)) ELSE s

RECURSIVE TrimEnd(_)
TrimEnd(s) ==
    IF s # <<>> /\ s[Len(s)] = Space
    THEN TrimEnd(SubSeq(s, 1, Len(s) - 1))
    ELSE s

\* String.prototype.trim
trim(s) == TrimEnd(TrimStart(s))

\* the data effect's collection(db, 'artifacts', appId, 'users', userId, 'todos')
todosCollection(uid) == << "artifacts", appId, "users", uid, "todos" >>

\* handleAddTodo's collection(db, 'artifacts', appId, 'users', userId, 'todos')
addPath(uid) == << "artifacts", appId, "users", uid, "todos" >>

\* handleToggleTodo's doc(db, 'artifacts', appId, 'users', userId, 'todos', id)
togglePath(uid) == << "artifacts", appId, "users", uid, "todos" >>

\* a path built from an identity captured once
deletePathStale(uid) == << "artifacts", appId, "users", "A", "todos" >>

\* handleDeleteTodo's doc(db, 'artifacts', appId, 'users', userId, 'todos', id)
deletePath(uid) == << "artifacts", appId, "users", uid, "todos" >>

\* the collections of the store: one per identity
Paths == { << "artifacts", appId, "users", u, "todos" >> : u \in Users }

\* { id: doc.id, ...doc.data() }
Item(d) == [ id |-> d.id, text |-> d.data.text, completed |-> d.data.completed ]

RemoveAt(s, i) == SubSeq(s, 1, i - 1) \o SubSeq(s, i + 1, Len(s))

Range(s) == { s[i] : i \in 1..Len(s) }

\* every ordering of a set of documents (the provider's delivery order)
Orderings(S) ==
    { s \in [ 1..Cardinality(S) -> S ] : Range(s) = S }

----------------------------------------------------------------------------
(* The state after the component is mounted: both effects have run once,  *)
(* the auth listener is registered, the data effect returned at its guard *)

\* tokens: the values the launch token may have; docsA: the documents that
\* identity A's collection holds from earlier sessions
InitWith(tokens, docsA) ==
    /\ todos = << >>
    /\ newTodo = << >>
    /\ loading = TRUE
    /\ userId = NoUser
    /\ authReady = FALSE
    /\ mounted = TRUE
    /\ liveSubs = {}
    /\ signIns = << >>
    /\ currentUser = Unresolved
    /\ store = [ p \in Paths |-> IF p = todosCollection("A") THEN docsA ELSE {} ]
    /\ inflight = << >>
    /\ called = [ op |-> "mount", args |-> << >> ]
    /\ issued = << >>
    /\ thrown = FALSE
    /\ lastSnap = << >>
    /\ mirrorOf = NoPath
    /\ initialAuthToken \in tokens

Init == InitWith(Tokens \cup {NoToken}, {})

\* what a step records about itself
Record(op, args, reqs, threw, snap) ==
    /\ called' = [ op |-> op, args |-> args ]
    /\ issued' = reqs
    /\ thrown' = threw
    /\ lastSnap' = snap

----------------------------------------------------------------------------
(* 2.2 Data fetching effect *)

\* a cleanup that forgets to unsubscribe
effectCleanupNone(live, ready, uid) == live

\* the cleanup returned by the effect's previous run: unsubscribe()
effectCleanup(live, ready, uid) ==
    IF ready /\ uid # NoUser THEN live \ { todosCollection(uid) } ELSE live

\* the effect's body: if (!authReady || !userId) return; onSnapshot(...)
dataFetchingEffect(live, ready, uid) ==
    IF ~ready \/ uid = NoUser THEN live ELSE live \cup { todosCollection(uid) }

\* the render after setUserId / setAuthReady: the effect re-runs when one of
\* its dependencies [authReady, userId] changed, cleanup first
Commit(ready, uid) ==
    /\ userId' = uid
    /\ authReady' = ready
    /\ liveSubs' =
         IF ready # authReady \/ uid # userId
         THEN dataFetchingEffect(effectCleanup(liveSubs, authReady, userId), ready, uid)
         ELSE liveSubs

----------------------------------------------------------------------------
(* 2.1 Authentication effect: the onAuthStateChanged callback *)

\* the state the callback sets when a user is reported
authUserState(ready, uid, user) == [ authReady |-> TRUE, userId |-> user.uid ]

\* a catch block that also clears the identity
signInFailedStateCleared(ready, uid) == [ authReady |-> TRUE, userId |-> NoUser ]

\* the state the catch block sets when sign-in fails
signInFailedState(ready, uid) == [ authReady |-> TRUE, userId |-> uid ]

\* a callback that ignores the launch token
signInKindAnonymous(token) == "anonymous"

\* the sign-in the callback starts when no user is reported
signInKind(token) == IF token # NoToken THEN "customToken" ELSE "anonymous"

\* if (user) { setUserId(user.uid); setAuthReady(true) }
AuthUser(u) ==
    /\ mounted
    /\ u # currentUser
    /\ currentUser' = u
    /\ LET s == authUserState(authReady, userId, [ uid |-> u ])
       IN  Commit(s.authReady, s.userId)
    /\ Record("authUser", << u >>, << >>, FALSE, << >>)
    /\ UNCHANGED << todos, newTodo, loading, mounted, signIns, store, inflight,
                    mirrorOf, initialAuthToken >>

\* else { try { await signInWithCustomToken / signInAnonymously ...
AuthNone ==
    /\ mounted
    /\ currentUser # NoUser
    /\ Len(signIns) < MaxSignIns
    /\ currentUser' = NoUser
    /\ signIns' = Append(signIns, signInKind(initialAuthToken))
    /\ Record("authNone", << >>, << >>, FALSE, << >>)
    /\ UNCHANGED << todos, newTodo, loading, userId, authReady, mounted, liveSubs,
                    store, inflight, mirrorOf, initialAuthToken >>

\* the awaited sign-in resolves: the provider has a user and reports it
SignInOk(i, u) ==
    /\ i \in 1..Len(signIns)
    /\ signIns' = RemoveAt(signIns, i)
    /\ currentUser' = u
    /\ IF mounted
       THEN LET s == authUserState(authReady, userId, [ uid |-> u ])
            IN  Commit(s.authReady, s.userId)
       ELSE UNCHANGED << userId, authReady, liveSubs >>
    /\ Record("signInOk", << u >>, << >>, FALSE, << >>)
    /\ UNCHANGED << todos, newTodo, loading, mounted, store, inflight, mirrorOf,
                    initialAuthToken >>

\* ... } catch (e) { console.error(...); setAuthReady(true) }
SignInFail(i) ==
    /\ i \in 1..Len(signIns)
    /\ signIns' = RemoveAt(signIns, i)
    /\ IF mounted
       THEN LET s == signInFailedState(authReady, userId)
            IN  Commit(s.authReady, s.userId)
       ELSE UNCHANGED << userId, authReady, liveSubs >>
    /\ Record("signInFail", << >>, << >>, FALSE, << >>)
    /\ UNCHANGED << todos, newTodo, loading, mounted, currentUser, store, inflight,
                    mirrorOf, initialAuthToken >>

----------------------------------------------------------------------------
(* The onSnapshot callbacks *)

\* querySnapshot.forEach(doc => todosData.push({ id: doc.id, ...doc.data() }))
RECURSIVE forEachPush(_, _)
forEachPush(todosData, docs) ==
    IF docs = << >>
    THEN todosData
    ELSE forEachPush(Append(todosData, Item(Head(docs))), Tail(docs))

\* a callback that never calls setTodos
snapshotTodosKept(prev, docs) == prev

\* a callback that merges the notification into the mirror
snapshotTodosMerge(prev, docs) == forEachPush(prev, docs)

\* const todosData = []; ...; setTodos(todosData)
snapshotTodos(prev, docs) == forEachPush(<< >>, docs)

\* callbacks that flip the loading flag
snapshotLoadingFlipped(prev) == ~prev

\* the loading flag after either callback: setLoading(false)
snapshotLoading(prev) == FALSE

\* the success callback, with the collection's documents in some order
Snapshot(p, docs) ==
    /\ p \in liveSubs
    /\ docs \in Orderings(store[p])
    /\ todos' = snapshotTodos(todos, docs)
    /\ loading' = snapshotLoading(loading)
    /\ mirrorOf' = p
    /\ Record("snapshot", << p >>, << >>, FALSE, docs)
    /\ UNCHANGED << newTodo, userId, authReady, mounted, liveSubs, signIns,
                    currentUser, store, inflight, initialAuthToken >>

\* an error callback that clears the list
errorTodosCleared(prev) == << >>

\* the mirror after the error callback: it only logs and stops loading
errorTodos(prev) == prev

\* the error callback; the store ends a listener it reports an error on
SnapshotError(p) ==
    /\ p \in liveSubs
    /\ liveSubs' = liveSubs \ {p}
    /\ todos' = errorTodos(todos)
    /\ loading' = snapshotLoading(loading)
    /\ Record("snapshotError", << p >>, << >>, FALSE, << >>)
    /\ UNCHANGED << newTodo, userId, authReady, mounted, signIns, currentUser,
                    store, inflight, mirrorOf, initialAuthToken >>

----------------------------------------------------------------------------
(* Requests to the document store *)

\* addDoc(collection(...), { text, completed })
createReq(path, text, completed) ==
    [ op |-> "create", path |-> path, id |-> "",
      fields |-> [ text |-> text, completed |-> completed ] ]

\* updateDoc(doc(..., id), { completed })
updateReq(path, id, completed) ==
    [ op |-> "update", path |-> path, id |-> id,
      fields |-> [ completed |-> completed ] ]

\* deleteDoc(doc(..., id))
deleteReq(path, id) ==
    [ op |-> "delete", path |-> path, id |-> id, fields |-> << >> ]

\* collection(...) and doc(...) throw on a path segment that is no string
pathThrows(uid) == uid = NoUser

\* what a handler did: the requests it issued, whether an exception escaped
Outcome(reqs, threw) == [ reqs |-> reqs, threw |-> threw ]

----------------------------------------------------------------------------
(* 2.3 - 2.5 The mutation handlers *)

\* onChange={(e) => setNewTodo(e.target.value)}
setNewTodo(t) ==
    /\ mounted
    /\ newTodo' = t
    /\ Record("change", << t >>, << >>, FALSE, << >>)
    /\ UNCHANGED << todos, loading, userId, authReady, mounted, liveSubs, signIns,
                    currentUser, store, inflight, mirrorOf, initialAuthToken >>

\* handleAddTodo without the trim
addOutcomeNoTrim(input, uid) ==
    IF input # << >> /\ uid # NoUser
    THEN Outcome(<< createReq(addPath(uid), input, FALSE) >>, FALSE)
    ELSE Outcome(<< >>, FALSE)

\* handleAddTodo guarding on the raw input and sending the trimmed text
addOutcomeRawGuard(input, uid) ==
    IF input # << >> /\ uid # NoUser
    THEN Outcome(<< createReq(addPath(uid), trim(input), FALSE) >>, FALSE)
    ELSE Outcome(<< >>, FALSE)

\* handleAddTodo up to its await: the path is built inside the try block, so
\* an exception there is caught and logged
addOutcome(input, uid) ==
    LET text == trim(input)
    IN  IF text # << >> /\ uid # NoUser
        THEN IF pathThrows(uid)
             THEN Outcome(<< >>, FALSE)
             ELSE Outcome(<< createReq(addPath(uid), text, FALSE) >>, FALSE)
        ELSE Outcome(<< >>, FALSE)

\* handleToggleTodo without its identity guard
toggleOutcomeNoGuard(uid, id, currentCompleted) ==
    IF pathThrows(uid)
    THEN Outcome(<< >>, TRUE)
    ELSE Outcome(<< updateReq(togglePath(uid), id, ~currentCompleted) >>, FALSE)

\* handleToggleTodo flipping the mirror's value of the item
toggleOutcomeFromMirror(uid, id, currentCompleted) ==
    IF uid = NoUser
    THEN Outcome(<< >>, FALSE)
    ELSE LET known == { t.completed : t \in { x \in Range(todos) : x.id = id } }
             cur == IF known = {} THEN FALSE ELSE CHOOSE b \in known : TRUE
         IN  Outcome(<< updateReq(togglePath(uid), id, ~cur) >>, FALSE)

\* handleToggleTodo up to its await: doc(...) is built before the try block
toggleOutcome(uid, id, currentCompleted) ==
    IF uid = NoUser
    THEN Outcome(<< >>, FALSE)
    ELSE IF pathThrows(uid)
         THEN Outcome(<< >>, TRUE)
         ELSE Outcome(<< updateReq(togglePath(uid), id, ~currentCompleted) >>, FALSE)

\* handleDeleteTodo deleting the first item of the mirror
deleteOutcomeFirstItem(uid, id) ==
    IF uid = NoUser
    THEN Outcome(<< >>, FALSE)
    ELSE LET target == IF todos = << >> THEN id ELSE todos[1].id
         IN  Outcome(<< deleteReq(deletePath(uid), target) >>, FALSE)

\* handleDeleteTodo up to its await: doc(...) is built before the try block
deleteOutcome(uid, id) ==
    IF uid = NoUser
    THEN Outcome(<< >>, FALSE)
    ELSE IF pathThrows(uid)
         THEN Outcome(<< >>, TRUE)
         ELSE Outcome(<< deleteReq(deletePath(uid), id) >>, FALSE)

\* a handler's step: it sets no state itself, it only issues its requests
Handle(op, args, out) ==
    /\ mounted
    /\ inflight' = inflight \o out.reqs
    /\ Record(op, args, out.reqs, out.threw, << >>)
    /\ UNCHANGED << todos, newTodo, loading, userId, authReady, mounted, liveSubs,
                    signIns, currentUser, store, mirrorOf, initialAuthToken >>

handleAddTodo == Handle("add", << newTodo >>, addOutcome(newTodo, userId))

handleToggleTodo(id, currentCompleted) ==
    Handle("toggle", << id, currentCompleted >>,
           toggleOutcome(userId, id, currentCompleted))

handleDeleteTodo(id) == Handle("delete", << id >>, deleteOutcome(userId, id))

\* TodoItem: onToggle(todo.id, todo.completed) / onDelete(todo.id)
TodoItem_handleToggle(todo) == handleToggleTodo(todo.id, todo.completed)

TodoItem_handleDelete(todo) == handleDeleteTodo(todo.id)

----------------------------------------------------------------------------
(* The document store settles a request *)

HasDoc(docs, id) == \E d \in docs : d.id = id

\* a store that flips the stored value on an update instead of writing the
\* value the request carries
applyWriteFlip(docs, r, newId) ==
    CASE r.op = "create" ->
           docs \cup { [ id |-> newId,
                         data |-> [ text |-> r.fields.text,
                                    completed |-> r.fields.completed ] ] }
      [] r.op = "update" ->
           { IF d.id = r.id
             THEN [ d EXCEPT !.data.completed = ~d.data.completed ]
             ELSE d : d \in docs }
      [] r.op = "delete" -> { d \in docs : d.id # r.id }

\* the collection after the write is applied; newId is the id the store
\* assigns to a created document
applyWrite(docs, r, newId) ==
    CASE r.op = "create" ->
           docs \cup { [ id |-> newId,
                         data |-> [ text |-> r.fields.text,
                                    completed |-> r.fields.completed ] ] }
      [] r.op = "update" ->
           { IF d.id = r.id
             THEN [ d EXCEPT !.data.completed = r.fields.completed ]
             ELSE d : d \in docs }
      [] r.op = "delete" -> { d \in docs : d.id # r.id }

\* the input field after the awaited request resolved: setNewTodo('') follows
\* addDoc only
resolvedNewTodo(r, input) == IF r.op = "create" THEN << >> ELSE input

\* the request succeeds: the store applies it and the handler's await returns
RequestOk(i, newId) ==
    /\ i \in 1..Len(inflight)
    /\ LET r == inflight[i]
       IN  /\ r.op = "create" => ~HasDoc(store[r.path], newId)
           /\ r.op = "update" => HasDoc(store[r.path], r.id)
           /\ store' = [ store EXCEPT ![r.path] = applyWrite(@, r, newId) ]
           /\ newTodo' = IF mounted THEN resolvedNewTodo(r, newTodo) ELSE newTodo
    /\ inflight' = RemoveAt(inflight, i)
    /\ Record("resolved", << inflight[i].op, IF inflight[i].op = "create" THEN newId ELSE inflight[i].id >>, << >>, FALSE, << >>)
    /\ UNCHANGED << todos, loading, userId, authReady, mounted, liveSubs, signIns,
                    currentUser, mirrorOf, initialAuthToken >>

\* a catch block that issues the rejected request again
RequestFailRetry(i) ==
    /\ i \in 1..Len(inflight)
    /\ inflight' = Append(RemoveAt(inflight, i), inflight[i])
    /\ Record("rejected", << >>, << inflight[i] >>, FALSE, << >>)
    /\ UNCHANGED << todos, newTodo, loading, userId, authReady, mounted, liveSubs,
                    signIns, currentUser, store, mirrorOf, initialAuthToken >>

\* the request is rejected: catch (e) { console.error(...) }
RequestFail(i) ==
    /\ i \in 1..Len(inflight)
    /\ inflight' = RemoveAt(inflight, i)
    /\ Record("rejected", << >>, << >>, FALSE, << >>)
    /\ UNCHANGED << todos, newTodo, loading, userId, authReady, mounted, liveSubs,
                    signIns, currentUser, store, mirrorOf, initialAuthToken >>

----------------------------------------------------------------------------
(* The component is discarded: both effects' cleanups run *)

Unmount ==
    /\ mounted
    /\ mounted' = FALSE
    /\ liveSubs' = effectCleanup(liveSubs, authReady, userId)
    /\ Record("unmount", << >>, << >>, FALSE, << >>)
    /\ UNCHANGED << todos, newTodo, loading, userId, authReady, signIns,
                    currentUser, store, inflight, mirrorOf, initialAuthToken >>

----------------------------------------------------------------------------

\* every step of the component and of its two collaborators, over the
\* identities U the provider reports, the document ids D of the store and the
\* texts T typed in the input field, with at most n requests in flight
Step(U, D, T, n) ==
    \/ \E u \in U : AuthUser(u)
    \/ AuthNone
    \/ \E i \in 1..MaxSignIns, u \in U : SignInOk(i, u)
    \/ \E i \in 1..MaxSignIns : SignInFail(i)
    \/ \E u \in U : \E docs \in Orderings(store[todosCollection(u)]) :
          Snapshot(todosCollection(u), docs)
    \/ \E u \in U : SnapshotError(todosCollection(u))
    \/ \E t \in T : setNewTodo(t)
    \/ handleAddTodo /\ Len(inflight') <= n
    \/ \E id \in D, c \in BOOLEAN : handleToggleTodo(id, c) /\ Len(inflight') <= n
    \/ \E id \in D : handleDeleteTodo(id) /\ Len(inflight') <= n
    \/ \E i \in 1..Len(todos) : TodoItem_handleToggle(todos[i]) /\ Len(inflight') <= n
    \/ \E i \in 1..Len(todos) : TodoItem_handleDelete(todos[i]) /\ Len(inflight') <= n
    \/ \E i \in 1..n, newId \in D : RequestOk(i, newId)
    \/ \E i \in 1..n : RequestFail(i)
    \/ Unmount

\* one identity over a one-document store, with or without a launch token:
\* the session, the input field and the mutations
Next == Step({"A"}, {"d1"}, Texts, MaxInflight)

Spec == Init /\ [][Next]_vars

\* two identities over a one-document store: switching identity
InitUsers == InitWith({NoToken}, {})

NextUsers == Step(Users, {"d1"}, UserTexts, MaxInflight)

SpecUsers == InitUsers /\ [][NextUsers]_vars

\* one identity over a two-document store that holds a document from an
\* earlier session: the mirror
InitDocs ==
    InitWith({NoToken},
             { [ id |-> "d2", data |-> [ text |-> <<"b">>, completed |-> TRUE ] ] })

NextDocs == Step({"A"}, DocIds, DocTexts, MaxInflight)

SpecDocs == InitDocs /\ [][NextDocs]_vars

\* another session of the application, signed in under identity u, toggles
\* document id from its own last-known value: its updateDoc is applied
OtherSessionToggle(u, id, lastKnown) ==
    /\ HasDoc(store[togglePath(u)], id)
    /\ store' = [ store EXCEPT ![togglePath(u)] =
                    applyWrite(@, updateReq(togglePath(u), id, ~lastKnown), id) ]
    /\ Record("otherToggle", << u, id, lastKnown >>, << >>, FALSE, << >>)
    /\ UNCHANGED << todos, newTodo, loading, userId, authReady, mounted, liveSubs,
                    signIns, currentUser, inflight, mirrorOf, initialAuthToken >>

\* one identity over a one-document store, two requests in flight and a
\* second session under the same identity: racing writes
InitRace ==
    InitWith({NoToken},
             { [ id |-> "d1", data |-> [ text |-> <<"a">>, completed |-> FALSE ] ] })

NextRace ==
    \/ Step({"A"}, {"d1"}, UserTexts, MaxRace)
    \/ \E c \in BOOLEAN : OtherSessionToggle("A", "d1", c)

SpecRace == InitRace /\ [][NextRace]_vars

\* one identity over an empty store with a second session under the same
\* identity; a live listener is eventually notified of the collection's
\* contents (onSnapshot's callback is invoked for as long as it is attached)
InitLive == InitWith({NoToken}, {})

SnapshotDelivered ==
    \E docs \in Orderings(store[todosCollection("A")]) :
        Snapshot(todosCollection("A"), docs)

NextLive ==
    \/ Step({"A"}, {"d1"}, UserTexts, MaxInflight)
    \/ \E c \in BOOLEAN : OtherSessionToggle("A", "d1", c)

SpecLive == InitLive /\ [][NextLive]_vars /\ WF_vars(SnapshotDelivered)

----------------------------------------------------------------------------
(* Properties *)

Mutations == { "add", "toggle", "delete" }

IsBlank(s) == \A k \in 1..Len(s) : s[k] = Space

\* t is s without its leading and trailing whitespace
IsTrimOf(t, s) ==
    /\ t # << >> => Head(t) # Space /\ t[Len(t)] # Space
    /\ \E i \in 0..Len(s) :
          /\ i + Len(t) <= Len(s)
          /\ SubSeq(s, i + 1, i + Len(t)) = t
          /\ \A k \in 1..Len(s) : (k <= i \/ k > i + Len(t)) => s[k] = Space

\* C1: add, toggle and delete invoked while no identity is recorded issue no
\* request, let no exception escape, and leave the mirror, the identity and
\* the ready flag as they were.
C1_NoIdentityNoOp ==
    [][ (called'.op \in Mutations /\ userId = NoUser) =>
            /\ issued' = << >>
            /\ inflight' = inflight
            /\ thrown' = FALSE
            /\ todos' = todos
            /\ userId' = userId
            /\ authReady' = authReady ]_vars

C1_Witness ==
    /\ called.op = "toggle"
    /\ userId = NoUser
    /\ authReady
    /\ issued = << >>

\* C2: after a snapshot notification the mirror holds exactly the items of
\* the notification, each with its id, text and completed, and nothing else.
C2_MirrorIsSnapshot ==
    called.op = "snapshot" =>
        /\ \A d \in Range(lastSnap) : \E t \in Range(todos) :
              t.id = d.id /\ t.text = d.data.text /\ t.completed = d.data.completed
        /\ \A t \in Range(todos) : \E d \in Range(lastSnap) :
              t.id = d.id /\ t.text = d.data.text /\ t.completed = d.data.completed

C2_Witness ==
    /\ called.op = "snapshot"
    /\ Len(lastSnap) = 2
    /\ lastSnap[1].data.text # lastSnap[2].data.text
    /\ lastSnap[1].data.completed # lastSnap[2].data.completed

\* C3: every item in the mirror comes from the collection of the identity
\* that is recorded now.
C3_NoCrossIdentity ==
    todos # << >> => (userId # NoUser /\ mirrorOf = todosCollection(userId))

\* C4: once the provider has reported the identity lost or switched, no
\* subscription of the previous identity is live, and no snapshot of its
\* collection is applied to the mirror.
C4_CancelledOnLossOrSwitch ==
    /\ \A p \in liveSubs : currentUser \in Users /\ p = todosCollection(currentUser)
    /\ called.op = "snapshot" =>
          (currentUser \in Users /\ called.args[1] = todosCollection(currentUser))

\* C5: at most one subscription is live, and only while the session is ready
\* with an identity, on the items collection of that identity.
C5_OneSubscription ==
    /\ Cardinality(liveSubs) <= 1
    /\ \A p \in liveSubs :
          /\ authReady
          /\ userId # NoUser
          /\ p = << "artifacts", appId, "users", userId, "todos" >>
    /\ (~authReady \/ userId = NoUser) => liveSubs = {}

C5_Witness ==
    /\ userId = "B"
    /\ liveSubs = { << "artifacts", appId, "users", "B", "todos" >> }
    /\ mirrorOf = << "artifacts", appId, "users", "A", "todos" >>

\* C6: after a failed sign-in the session is ready with no identity.
C6_FailedSignInNoIdentity ==
    (called.op = "signInFail" /\ mounted) => (authReady /\ userId = NoUser)

\* C7: every request issued targets the items collection of the recorded
\* identity, which is the collection the live subscription is on.
C7_PathConsistency ==
    \A k \in 1..Len(issued) :
        /\ userId # NoUser
        /\ issued[k].path = todosCollection(userId)
        /\ \A p \in liveSubs : p = issued[k].path

C7_Witness ==
    /\ called.op = "delete"
    /\ userId = "B"
    /\ Len(issued) = 1
    /\ liveSubs = { issued[1].path }

\* C8: add with text that is not blank and an identity present issues exactly
\* one request, a create with completed = false and the trimmed text.
C8_AddIssuesOneCreate ==
    (called.op = "add" /\ ~IsBlank(called.args[1]) /\ userId # NoUser) =>
        /\ Len(issued) = 1
        /\ issued[1].op = "create"
        /\ issued[1].fields.completed = FALSE
        /\ IsTrimOf(issued[1].fields.text, called.args[1])

C8_Witness ==
    /\ called.op = "add"
    /\ called.args[1] = << " ", "a", " " >>
    /\ Len(issued) = 1
    /\ issued[1].fields.text = << "a" >>

\* C9: add with blank text (empty or whitespace only) issues no request,
\* with or without an identity, and leaves the mirror unchanged.
C9_BlankAddIssuesNothing ==
    [][ (called'.op = "add" /\ IsBlank(called'.args[1])) =>
            /\ issued' = << >>
            /\ inflight' = inflight
            /\ todos' = todos ]_vars

C9_Witness ==
    /\ called.op = "add"
    /\ called.args[1] = << " " >>
    /\ userId # NoUser
    /\ todos # << >>

\* C10: toggle(id, c) with an identity present issues exactly one request, an
\* update of document id whose only field is completed = ~c, whatever the
\* mirror and the store hold for that document.
C10_ToggleWritesNotC ==
    (called.op = "toggle" /\ userId # NoUser) =>
        /\ Len(issued) = 1
        /\ issued[1].op = "update"
        /\ issued[1].id = called.args[1]
        /\ DOMAIN issued[1].fields = { "completed" }
        /\ issued[1].fields.completed = ~called.args[2]

C10_Witness ==
    /\ called.op = "toggle"
    /\ userId # NoUser
    /\ called.args[2] = TRUE
    /\ \E t \in Range(todos) : t.id = called.args[1] /\ t.completed = FALSE
    /\ \E d \in store[todosCollection(userId)] :
          d.id = called.args[1] /\ d.data.completed = FALSE
    /\ issued[1].fields.completed = FALSE

\* C11: delete(id) with an identity present issues exactly one request, a
\* delete of document id in the collection of the recorded identity, and no
\* request for any other document.
C11_DeleteIssuesOneDelete ==
    (called.op = "delete" /\ userId # NoUser) =>
        /\ Len(issued) = 1
        /\ issued[1].op = "delete"
        /\ issued[1].id = called.args[1]
        /\ issued[1].path = << "artifacts", appId, "users", userId, "todos" >>
        /\ \A k \in 1..Len(issued) : issued[k].id = called.args[1]

C11_Witness ==
    /\ called.op = "delete"
    /\ called.args[1] = "d2"
    /\ Len(todos) = 2
    /\ todos[1].id = "d1"
    /\ Cardinality(store[todosCollection(userId)]) = 2
    /\ issued = << deleteReq(todosCollection("A"), "d2") >>

\* C12: add, toggle and delete never change the mirror themselves, whether
\* their request succeeds or fails: the mirror changes only in a snapshot
\* notification. A rejected request is not issued again and leaves the
\* mirror, the identity and the ready flag as they were.
C12_NoOptimisticUpdate ==
    [][ /\ todos' # todos => called'.op = "snapshot"
        /\ called'.op \in Mutations \cup { "resolved", "rejected" } => todos' = todos
        /\ called'.op = "rejected" =>
              /\ issued' = << >>
              /\ Len(inflight') = Len(inflight) - 1
              /\ \A r \in Range(inflight') : r \in Range(inflight)
              /\ store' = store
              /\ userId' = userId
              /\ authReady' = authReady ]_vars

C12_Witness ==
    /\ called.op = "rejected"
    /\ inflight = << >>
    /\ todos # << >>
    /\ todos[1].completed = FALSE
    /\ \E d \in store[todosCollection("A")] : d.id = todos[1].id /\ ~d.data.completed

\* C13: a subscription error sets the loading flag to false and leaves the
\* mirror exactly as it was; no subscription is opened in response.
C13_ErrorKeepsMirror ==
    [][ called'.op = "snapshotError" =>
            /\ loading' = FALSE
            /\ todos' = todos
            /\ liveSubs' \subseteq liveSubs
            /\ called'.args[1] \notin liveSubs'
            /\ userId' = userId
            /\ authReady' = authReady ]_vars

C13_Witness ==
    /\ called.op = "snapshotError"
    /\ todos # << >>
    /\ loading = FALSE
    /\ liveSubs = {}
    /\ userId = "A"
    /\ authReady

\* C14: racing toggles of one item are all applied, none is refused or
\* merged: each toggle writes NOT c of its own argument whatever is in flight
\* or stored, and when a write is applied the item's completed field is the
\* value that write carries, so the write applied last wins and two toggles
\* from the same last-known value c leave the item at NOT c.
C14_LastWriteWins ==
    [][ /\ (called'.op = "toggle" /\ userId # NoUser) =>
              /\ Len(inflight') = Len(inflight) + 1
              /\ inflight'[Len(inflight')] =
                    updateReq(todosCollection(userId), called'.args[1],
                              ~called'.args[2])
        /\ called'.op = "resolved" =>
              \E i \in 1..Len(inflight) :
                 /\ inflight' = RemoveAt(inflight, i)
                 /\ inflight[i].op = "update" =>
                       \A d \in store'[inflight[i].path] :
                          d.id = inflight[i].id =>
                             d.data.completed = inflight[i].fields.completed
        /\ called'.op = "otherToggle" =>
              \A d \in store'[todosCollection(called'.args[1])] :
                 d.id = called'.args[2] => d.data.completed = ~called'.args[3] ]_vars

\* two toggles of d1 from the last-known value FALSE were in flight together;
\* one is applied, the other, carrying the same value, is still in flight
C14_Witness ==
    /\ called.op = "resolved"
    /\ \E t \in Range(todos) : t.id = "d1" /\ t.completed = FALSE
    /\ inflight = << updateReq(todosCollection("A"), "d1", TRUE) >>
    /\ \E d \in store[todosCollection("A")] : d.id = "d1" /\ d.data.completed = TRUE

\* C15: a notification that reports no identity starts exactly one sign-in
\* attempt, token-based if a token was supplied at launch and anonymous
\* otherwise; a notification that reports an identity starts none; a failed
\* sign-in is not followed by another attempt of the application's own.
C15_OneSignInPerLoss ==
    [][ /\ called'.op = "authNone" =>
              signIns' = Append(signIns, IF initialAuthToken \in Tokens
                                         THEN "customToken"
                                         ELSE "anonymous")
        /\ called'.op = "authUser" => signIns' = signIns
        /\ called'.op \in { "signInFail", "signInOk" } =>
              /\ Len(signIns') = Len(signIns) - 1
              /\ \A k \in Range(signIns') : k \in Range(signIns)
        /\ Len(signIns') > Len(signIns) => called'.op = "authNone" ]_vars

C15_Witness ==
    /\ called.op = "authNone"
    /\ initialAuthToken = "tok"
    /\ signIns = << "customToken" >>
    /\ userId = "A"

\* the add's request has just been applied by the store: document d1 exists
\* with the typed text and completed = FALSE
Created ==
    /\ called.op = "resolved"
    /\ called.args = << "create", "d1" >>

InMirror(id, c) == \E t \in Range(todos) : t.id = id /\ t.completed = c

Stored(id, c) ==
    \E d \in store[todosCollection("A")] : d.id = id /\ d.data.completed = c

NotLive == todosCollection("A") \notin liveSubs

\* C16 as stated: a created item eventually appears in the mirror with
\* completed = FALSE unless it is deleted first or the subscription ends.
C16_AppearsNotCompleted ==
    Created ~> (InMirror("d1", FALSE) \/ ~HasDoc(store[todosCollection("A")], "d1") \/ NotLive)

\* C16: neither add nor the settling of its request changes the mirror; while
\* the subscription is live and notifications are delivered, a created item
\* eventually appears in the mirror with completed = FALSE through a snapshot
\* notification, unless it is deleted or toggled first.
C16_AppearsUnlessChanged ==
    /\ [][ called'.op \in { "add", "resolved" } => todos' = todos ]_vars
    /\ Created ~> \/ InMirror("d1", FALSE) /\ called.op = "snapshot"
                  \/ ~HasDoc(store[todosCollection("A")], "d1")
                  \/ Stored("d1", TRUE)
                  \/ NotLive

\* the created item, untouched in the store, has arrived with a notification
C16_Witness ==
    /\ called.op = "snapshot"
    /\ lastSnap = << [ id |-> "d1", data |-> [ text |-> << "a" >>, completed |-> FALSE ] ] >>
    /\ todos = << [ id |-> "d1", text |-> << "a" >>, completed |-> FALSE ] >>
    /\ inflight = << >>
    /\ newTodo = << >>

\* C17: the recorded identity is only ever written with the uid the
\* provider reports in that step; once an identity is recorded it is never
\* reset to none; the ready flag, once true, stays true.
C17_IdentityNeverCleared ==
    [][ /\ userId' # userId =>
              /\ userId' \in Users
              /\ userId' = currentUser'
              /\ called'.op \in { "authUser", "signInOk" }
              /\ userId' = called'.args[1]
        /\ userId # NoUser => userId' # NoUser
        /\ authReady => authReady' ]_vars

C17_Witness ==
    /\ called.op = "signInFail"
    /\ currentUser = NoUser
    /\ userId = "B"
    /\ authReady
    /\ mounted
    /\ mirrorOf = todosCollection("A")

\* C18: the loading flag starts true, is changed only by a snapshot
\* notification or a subscription error, and once false stays false, also
\* when a new identity's subscription has delivered no snapshot yet.
C18_LoadingOnlyFalls ==
    /\ loading = TRUE
    /\ [][ /\ loading' # loading => called'.op \in { "snapshot", "snapshotError" }
           /\ called'.op \in { "snapshot", "snapshotError" } => loading' = FALSE
           /\ loading = FALSE => loading' = FALSE ]_vars

C18_Witness ==
    /\ called.op = "authUser"
    /\ ~loading
    /\ userId = "B"
    /\ liveSubs = { todosCollection("B") }
    /\ mirrorOf = todosCollection("A")
    /\ todos = << >>

====
